---- MODULE Spec2Model ----
(***************************************************************************)
(* Model of the pixel-pair evaluator of docs/Lesson4_evaluation.ipynb:     *)
(* the shape-mismatch filter loop, the concatenate/flatten step, the       *)
(* confusion matrix, its row normalisation and the macro F1 score.         *)
(*                                                                         *)
(* Arrays are 2-D grids (sequences of rows of class ids).  Python indices  *)
(* are kept 0-based in the variable i and in the printed diagnostics;      *)
(* TLA+ sequences are 1-based, so element i of a Python list is [i + 1].   *)
(* Floating point values are modelled as exact fractions [n, d] in lowest  *)
(* terms, with d = 0 for the IEEE specials: 0/0 is NaN and 1/0 is +inf.    *)
(***************************************************************************)
EXTENDS Integers, Sequences, FiniteSets, TLC

\* ------------------------------------------------------------------ bounds
\* Largest number of rows, and of columns, of an input grid.
MaxDim == 2
\* Largest total number of pixels of all input grids together.
MaxPixels == 6

\* ---------------------------------------------------------------- constants
OUTPUT_CHANNELS == 10

\* labels=list(range(OUTPUT_CHANNELS))
Labels == 0 .. (OUTPUT_CHANNELS - 1)

\* The class ids a pixel of an input image may carry: the background class,
\* the last declared class and the first id past the declared set.
ClassIds == {0, OUTPUT_CHANNELS - 1, OUTPUT_CHANNELS}

\* ------------------------------------------------------------------- inputs
Shapes == (1 .. MaxDim) \X (1 .. MaxDim)

Grids(s) == [1 .. s[1] -> [1 .. s[2] -> ClassIds]]

\* ndarray.shape of a 2-D grid
ShapeOf(g) == <<Len(g), Len(g[1])>>

\* ndarray.size
PixelCount(g) == Len(g) * Len(g[1])

\* All (prediction, label) pairs of exactly `cost` pixels together.
PairsOfCost(cost) ==
    UNION { Grids(sh[1]) \X Grids(sh[2]) :
            sh \in { x \in Shapes \X Shapes :
                     x[1][1] * x[1][2] + x[2][1] * x[2][2] = cost } }

RECURSIVE InputsWithin(_)
\* All sequences of (prediction, label) pairs of at most `budget` pixels.
InputsWithin(budget) ==
    {<<>>} \cup
    UNION { LET rests == InputsWithin(budget - cost)
            IN  UNION { { <<pr>> \o rest : rest \in rests } : pr \in PairsOfCost(cost) } :
            cost \in 2 .. budget }

\* ------------------------------------------------------------------ floats
NaN == [n |-> 0, d |-> 0]
Inf == [n |-> 1, d |-> 0]

RECURSIVE GCD(_, _)
GCD(a, b) == IF b = 0 THEN a ELSE GCD(b, a % b)

\* The fraction n/d (n >= 0, d > 0) in lowest terms.
Frac(n, d) == [n |-> n \div GCD(n, d), d |-> d \div GCD(n, d)]

\* int -> float (ndarray.astype('float'))
ToFloat(k) == [n |-> k, d |-> 1]

FAdd(a, b) ==
    IF a = NaN \/ b = NaN THEN NaN
    ELSE IF a = Inf \/ b = Inf THEN Inf
    ELSE Frac(a.n * b.d + b.n * a.d, a.d * b.d)

FMul(a, b) ==
    IF a = NaN \/ b = NaN THEN NaN
    ELSE IF a = Inf \/ b = Inf
         THEN (IF a.n = 0 \/ b.n = 0 THEN NaN ELSE Inf)
    ELSE Frac(a.n * b.n, a.d * b.d)

\* IEEE division of non-negative values: 0/0 = NaN, x/0 = inf, no exception.
FDiv(a, b) ==
    IF a = NaN \/ b = NaN THEN NaN
    ELSE IF a = Inf THEN (IF b = Inf THEN NaN ELSE Inf)
    ELSE IF b = Inf THEN ToFloat(0)
    ELSE IF b.n = 0 THEN (IF a.n = 0 THEN NaN ELSE Inf)
    ELSE Frac(a.n * b.d, a.d * b.n)

\* ------------------------------------------------------------------- numpy
\* np.stack in place of np.concatenate: every array must have the same shape.
CanStack(lst) ==
    /\ lst # <<>>
    /\ \A k \in 1 .. Len(lst) :
          Len(lst[k]) = Len(lst[1]) /\ Len(lst[k][1]) = Len(lst[1][1])

\* np.concatenate(lst) joins along axis 0; it raises ValueError for an empty
\* list and when the arrays differ in any other dimension.
CanConcatenate(lst) ==
    /\ lst # <<>>
    /\ \A k \in 1 .. Len(lst) : Len(lst[k][1]) = Len(lst[1][1])

RECURSIVE Concatenate(_)
Concatenate(lst) ==
    IF lst = <<>> THEN <<>> ELSE lst[1] \o Concatenate(Tail(lst))

RECURSIVE Flatten(_)
\* ndarray.flatten(): row-major (C order) copy collapsed to one dimension.
Flatten(a) == IF a = <<>> THEN <<>> ELSE a[1] \o Flatten(Tail(a))

\* ----------------------------------------------------------------- sklearn
ZeroMatrix == [t \in Labels |-> [p \in Labels |-> 0]]

\* confusion_matrix raises "At least one label specified must be in y_true"
\* when no element of y_true is one of the labels.
CanBuildMatrix(y_true, labels) ==
    \E k \in 1 .. Len(y_true) : y_true[k] \in labels

RECURSIVE Accumulate(_, _, _, _)
\* Counts of the first k positions; a position whose truth or prediction is
\* not one of the labels is eliminated before counting.
Accumulate(y_true, y_pred, labels, k) ==
    IF k = 0 THEN ZeroMatrix
    ELSE LET m == Accumulate(y_true, y_pred, labels, k - 1)
             t == y_true[k]
             p == y_pred[k]
         IN  IF t \in labels /\ p \in labels
             THEN [m EXCEPT ![t][p] = @ + 1]
             ELSE m

\* The arguments in the wrong order: confusion_matrix(y_pred, y_true, ...).
ConfusionMatrixTransposed(y_true, y_pred, labels) ==
    [dtype |-> "int", data |-> Accumulate(y_pred, y_true, labels, Len(y_true))]

\* confusion_matrix(y_true, y_pred, labels=labels)
ConfusionMatrix(y_true, y_pred, labels) ==
    [dtype |-> "int", data |-> Accumulate(y_true, y_pred, labels, Len(y_true))]

\* cm.astype('float')
AsFloat(m) ==
    IF m.dtype = "int"
    THEN [t \in Labels |-> [p \in Labels |-> ToFloat(m.data[t][p])]]
    ELSE m.data

RECURSIVE RowSum(_, _)
\* Sum of row[0 .. k].
RowSum(row, k) ==
    IF k < 0 THEN ToFloat(0) ELSE FAdd(RowSum(row, k - 1), row[k])

\* cm.astype('float') / cm.sum(axis=1)[:, np.newaxis]
Normalized(m) ==
    LET f == AsFloat(m)
    IN  [dtype |-> "float",
         data  |-> [t \in Labels |->
                      LET total == RowSum(f[t], OUTPUT_CHANNELS - 1)
                      IN  [p \in Labels |-> FDiv(f[t][p], total)]]]

\* unique_labels(y_true, y_pred): the labels f1_score uses when none are given
UniqueLabels(y_true, y_pred) ==
    {y_true[k] : k \in 1 .. Len(y_true)} \cup {y_pred[k] : k \in 1 .. Len(y_pred)}

\* _prf_divide: a zero denominator gives 0
PrfDivide(num, den) == IF den = 0 THEN ToFloat(0) ELSE Frac(num, den)

\* F1 of one class as precision_recall_fscore_support computes it.
ClassF1(y_true, y_pred, c) ==
    LET tp_sum    == Cardinality({k \in 1 .. Len(y_true) : y_true[k] = c /\ y_pred[k] = c})
        pred_sum  == Cardinality({k \in 1 .. Len(y_pred) : y_pred[k] = c})
        true_sum  == Cardinality({k \in 1 .. Len(y_true) : y_true[k] = c})
        precision == PrfDivide(tp_sum, pred_sum)
        recall    == PrfDivide(tp_sum, true_sum)
        denom     == FAdd(precision, recall)
    IN  FDiv(FMul(ToFloat(2), FMul(precision, recall)),
             IF denom.n = 0 THEN ToFloat(1) ELSE denom)

RECURSIVE SumF1(_, _, _)
SumF1(y_true, y_pred, labels) ==
    IF labels = {} THEN ToFloat(0)
    ELSE LET c == CHOOSE x \in labels : \A y \in labels : x >= y
         IN  FAdd(SumF1(y_true, y_pred, labels \ {c}), ClassF1(y_true, y_pred, c))

\* The declared labels passed on: f1_score(..., labels=list(range(OUTPUT_CHANNELS))).
F1LabelsDeclared(y_true, y_pred) == Labels

\* The label set of f1_score(y_true, y_pred, average='macro'): labels=None.
F1Labels(y_true, y_pred) == UniqueLabels(y_true, y_pred)

\* f1_score(y_true, y_pred, average='macro')
MacroF1(y_true, y_pred) ==
    LET labels == F1Labels(y_true, y_pred)
    IN  FDiv(SumF1(y_true, y_pred, labels), ToFloat(Cardinality(labels)))

\* -------------------------------------------------------------------- state
VARIABLES
    pred_arr_lst,        \* the prediction arrays read from disk
    label_arr_lst,       \* the label arrays read from disk
    pc,                  \* the source line the run is at, "done" or "error"
    i,                   \* the loop index of the filter loop
    pred_arr_lst_valid,
    label_arr_lst_valid,
    stdout,              \* the skip diagnostics printed so far
    flat_preds,
    flat_truth,
    cm,
    f1                   \* <<>> or the one value the last cell displays

vars == <<pred_arr_lst, label_arr_lst, pc, i, pred_arr_lst_valid,
          label_arr_lst_valid, stdout, flat_preds, flat_truth, cm, f1>>

\* A name that is not bound yet.
NoMatrix == [dtype |-> "none", data |-> <<>>]

Init ==
    /\ \/ /\ pred_arr_lst = <<>>
          /\ label_arr_lst = <<>>
       \/ \E cost \in 2 .. MaxPixels :
            \E first \in PairsOfCost(cost) :
              \E rest \in InputsWithin(MaxPixels - cost) :
                /\ pred_arr_lst  = <<first[1]>> \o [k \in 1 .. Len(rest) |-> rest[k][1]]
                /\ label_arr_lst = <<first[2]>> \o [k \in 1 .. Len(rest) |-> rest[k][2]]
    /\ pc = "L307"
    /\ i = 0
    /\ pred_arr_lst_valid = <<>>
    /\ label_arr_lst_valid = <<>>
    /\ stdout = <<>>
    /\ flat_preds = <<>>
    /\ flat_truth = <<>>
    /\ cm = NoMatrix
    /\ f1 = <<>>

\* Only the first dimension compared: len(pred) != len(label).
ShapeMismatchFirstDimOnly(p, l) == Len(p) # Len(l)

\* pred_arr_lst[i].shape != label_arr_lst[i].shape
ShapeMismatch(p, l) == ShapeOf(p) # ShapeOf(l)

\* The diagnostic numbering the pairs from 1.
DiagnosticOneBased(idx, p, l) ==
    [index |-> idx + 1, pred |-> p, label |-> l,
     pred_shape |-> ShapeOf(p), label_shape |-> ShapeOf(l)]

\* The five print calls of one skipped pair.
Diagnostic(idx, p, l) ==
    [index |-> idx, pred |-> p, label |-> l,
     pred_shape |-> ShapeOf(p), label_shape |-> ShapeOf(l)]

\* One iteration of the loop, taking the if branch.
FilterSkip ==
    /\ pc = "L307"
    /\ i < Len(pred_arr_lst)
    /\ ShapeMismatch(pred_arr_lst[i + 1], label_arr_lst[i + 1])
    /\ stdout' = Append(stdout, Diagnostic(i, pred_arr_lst[i + 1], label_arr_lst[i + 1]))
    /\ i' = i + 1
    /\ UNCHANGED <<pred_arr_lst, label_arr_lst, pc, pred_arr_lst_valid,
                   label_arr_lst_valid, flat_preds, flat_truth, cm, f1>>

\* One iteration of the loop, taking the else branch.
FilterKeep ==
    /\ pc = "L307"
    /\ i < Len(pred_arr_lst)
    /\ ~ ShapeMismatch(pred_arr_lst[i + 1], label_arr_lst[i + 1])
    /\ pred_arr_lst_valid' = Append(pred_arr_lst_valid, pred_arr_lst[i + 1])
    /\ label_arr_lst_valid' = Append(label_arr_lst_valid, label_arr_lst[i + 1])
    /\ i' = i + 1
    /\ UNCHANGED <<pred_arr_lst, label_arr_lst, pc, stdout,
                   flat_preds, flat_truth, cm, f1>>

\* range(0, len(pred_arr_lst)) is exhausted: the next cell runs.
LoopExit ==
    /\ pc = "L307"
    /\ i = Len(pred_arr_lst)
    /\ pc' = "L339"
    /\ UNCHANGED <<pred_arr_lst, label_arr_lst, i, pred_arr_lst_valid,
                   label_arr_lst_valid, stdout, flat_preds, flat_truth, cm, f1>>

\* flat_preds = np.concatenate(pred_arr_lst_valid).flatten()
FlattenPreds ==
    /\ pc = "L339"
    /\ IF CanConcatenate(pred_arr_lst_valid)
       THEN /\ flat_preds' = Flatten(Concatenate(pred_arr_lst_valid))
            /\ pc' = "L340"
       ELSE /\ pc' = "error"
            /\ UNCHANGED flat_preds
    /\ UNCHANGED <<pred_arr_lst, label_arr_lst, i, pred_arr_lst_valid,
                   label_arr_lst_valid, stdout, flat_truth, cm, f1>>

\* The unfiltered list flattened: np.concatenate(label_arr_lst).flatten().
FlattenTruthUnfiltered ==
    /\ pc = "L340"
    /\ IF CanConcatenate(label_arr_lst)
       THEN /\ flat_truth' = Flatten(Concatenate(label_arr_lst))
            /\ pc' = "L342"
       ELSE /\ pc' = "error"
            /\ UNCHANGED flat_truth
    /\ UNCHANGED <<pred_arr_lst, label_arr_lst, i, pred_arr_lst_valid,
                   label_arr_lst_valid, stdout, flat_preds, cm, f1>>

\* flat_truth = np.concatenate(label_arr_lst_valid).flatten()
FlattenTruth ==
    /\ pc = "L340"
    /\ IF CanConcatenate(label_arr_lst_valid)
       THEN /\ flat_truth' = Flatten(Concatenate(label_arr_lst_valid))
            /\ pc' = "L342"
       ELSE /\ pc' = "error"
            /\ UNCHANGED flat_truth
    /\ UNCHANGED <<pred_arr_lst, label_arr_lst, i, pred_arr_lst_valid,
                   label_arr_lst_valid, stdout, flat_preds, cm, f1>>

\* cm = confusion_matrix(flat_truth, flat_preds, labels=list(range(OUTPUT_CHANNELS)))
BuildMatrix ==
    /\ pc = "L342"
    /\ IF CanBuildMatrix(flat_truth, Labels)
       THEN /\ cm' = ConfusionMatrix(flat_truth, flat_preds, Labels)
            /\ pc' = "L364"
       ELSE /\ pc' = "error"
            /\ UNCHANGED cm
    /\ UNCHANGED <<pred_arr_lst, label_arr_lst, i, pred_arr_lst_valid,
                   label_arr_lst_valid, stdout, flat_preds, flat_truth, f1>>

\* ConfusionMatrixDisplay.from_predictions(...): draws a figure from the
\* flat streams and binds no name.
Display ==
    /\ pc = "L364"
    /\ pc' = "L387"
    /\ UNCHANGED <<pred_arr_lst, label_arr_lst, i, pred_arr_lst_valid,
                   label_arr_lst_valid, stdout, flat_preds, flat_truth, cm, f1>>

\* cm = cm.astype('float') / cm.sum(axis=1)[:, np.newaxis], then the plot.
Normalize ==
    /\ pc = "L387"
    /\ cm' = Normalized(cm)
    /\ pc' = "L456"
    /\ UNCHANGED <<pred_arr_lst, label_arr_lst, i, pred_arr_lst_valid,
                   label_arr_lst_valid, stdout, flat_preds, flat_truth, f1>>

\* The normalisation cell executed again, after its first execution.
ReNormalize ==
    /\ pc \in {"L456", "done"}
    /\ cm' = Normalized(cm)
    /\ UNCHANGED <<pred_arr_lst, label_arr_lst, pc, i, pred_arr_lst_valid,
                   label_arr_lst_valid, stdout, flat_preds, flat_truth, f1>>

\* f1_score(flat_truth, flat_preds, average='macro')
F1Score ==
    /\ pc = "L456"
    /\ f1' = <<MacroF1(flat_truth, flat_preds)>>
    /\ pc' = "done"
    /\ UNCHANGED <<pred_arr_lst, label_arr_lst, i, pred_arr_lst_valid,
                   label_arr_lst_valid, stdout, flat_preds, flat_truth, cm>>

Next ==
    \/ FilterSkip
    \/ FilterKeep
    \/ LoopExit
    \/ FlattenPreds
    \/ FlattenTruth
    \/ BuildMatrix
    \/ Display
    \/ Normalize
    \/ ReNormalize
    \/ F1Score

Spec == Init /\ [][Next]_vars

TypeOK ==
    /\ pc \in {"L307", "L339", "L340", "L342", "L364", "L387", "L456", "done", "error"}
    /\ i \in 0 .. Len(pred_arr_lst)
    /\ Len(pred_arr_lst) = Len(label_arr_lst)
    /\ cm.dtype \in {"none", "int", "float"}

\* ------------------------------------------------- vocabulary of the claims
N == Len(pred_arr_lst)

\* Pair k (1-based) has a prediction and a label of the same shape.
Matched(k) ==
    /\ Len(pred_arr_lst[k]) = Len(label_arr_lst[k])
    /\ Len(pred_arr_lst[k][1]) = Len(label_arr_lst[k][1])

RECURSIVE MatchedUpTo(_)
\* The matched pairs among the first n, in input order (1-based).
MatchedUpTo(n) ==
    IF n = 0 THEN <<>>
    ELSE IF Matched(n) THEN Append(MatchedUpTo(n - 1), n) ELSE MatchedUpTo(n - 1)

RECURSIVE MismatchedUpTo(_)
\* The Python indices (0-based) of the mismatched pairs among the first n.
MismatchedUpTo(n) ==
    IF n = 0 THEN <<>>
    ELSE IF Matched(n) THEN MismatchedUpTo(n - 1)
         ELSE Append(MismatchedUpTo(n - 1), n - 1)

\* The pixel locations of grid g of image k, row by row.
LocationsOf(k, g) ==
    [q \in 1 .. (Len(g) * Len(g[1])) |->
        [img |-> k, r |-> ((q - 1) \div Len(g[1])) + 1, c |-> ((q - 1) % Len(g[1])) + 1]]

RECURSIVE Locations(_)
\* The pixel locations of the matched pairs among the first n, in input order.
Locations(n) ==
    IF n = 0 THEN <<>>
    ELSE Locations(n - 1) \o
         (IF Matched(n) THEN LocationsOf(n, label_arr_lst[n]) ELSE <<>>)

TotalValidPixels == Len(Locations(N))

RECURSIVE SumInts(_, _)
\* f[0] + ... + f[k]
SumInts(f, k) == IF k < 0 THEN 0 ELSE SumInts(f, k - 1) + f[k]

\* Sum of all entries of an integer matrix over Labels x Labels.
SumAll(m) == SumInts([t \in Labels |-> SumInts(m[t], OUTPUT_CHANNELS - 1)],
                     OUTPUT_CHANNELS - 1)

\* Some pixel of a matched pair carries an id outside the declared set.
ValidPixelOutOfRange ==
    \E k \in 1 .. N :
       /\ Matched(k)
       /\ \E r \in 1 .. Len(label_arr_lst[k]) : \E c \in 1 .. Len(label_arr_lst[k][1]) :
            label_arr_lst[k][r][c] \notin Labels \/ pred_arr_lst[k][r][c] \notin Labels

FlatsBound == flat_truth # <<>>

\* ----------------------------------------------------------------------- C1
\* C1: at every point of the filter loop the valid lists hold exactly the
\* shape-matched pairs among the indices visited so far, prediction and label
\* of the same original index at the same position and in input order; the
\* loop never aborts, so once it is left every index has been visited.
C1_FilterKeepsExactlyMatched ==
    LET idx == MatchedUpTo(i)
    IN  /\ Len(pred_arr_lst_valid) = Len(idx)
        /\ Len(label_arr_lst_valid) = Len(idx)
        /\ \A k \in 1 .. Len(idx) :
              /\ pred_arr_lst_valid[k] = pred_arr_lst[idx[k]]
              /\ label_arr_lst_valid[k] = label_arr_lst[idx[k]]
        /\ (pc # "L307" => i = N)

\* A mismatched pair was dropped and a later matched pair was still appended.
C1_Witness ==
    /\ pc = "L339"
    /\ \E a, b \in 1 .. N : a < b /\ ~ Matched(a) /\ Matched(b)
    /\ Len(pred_arr_lst_valid) >= 1

\* ----------------------------------------------------------------------- C2
\* C2: the skip diagnostics printed so far are exactly one per mismatched pair
\* visited, in order, each carrying the index, arrays and shapes of the pair
\* it skips; and for two pairs of which one matches, the flat streams hold
\* only the pixels of the matching pair.
C2_OneDiagnosticPerMismatch ==
    LET bad == MismatchedUpTo(i)
    IN  /\ Len(stdout) = Len(bad)
        /\ \A k \in 1 .. Len(bad) :
              /\ stdout[k].index = bad[k]
              /\ stdout[k].pred = pred_arr_lst[bad[k] + 1]
              /\ stdout[k].label = label_arr_lst[bad[k] + 1]
              /\ ~ Matched(stdout[k].index + 1)
        /\ \A a, b \in 1 .. N :
              (N = 2 /\ Matched(a) /\ ~ Matched(b) /\ FlatsBound) =>
                 /\ Len(flat_truth) = PixelCount(label_arr_lst[a])
                 /\ \A q \in 1 .. Len(flat_truth) :
                       LET loc == LocationsOf(a, label_arr_lst[a])[q]
                       IN  /\ flat_truth[q] = label_arr_lst[a][loc.r][loc.c]
                           /\ flat_preds[q] = pred_arr_lst[a][loc.r][loc.c]
                 /\ Len(stdout) = 1
                 /\ stdout[1].index = b - 1

\* Image A (index 0) matches, image B (index 1) does not, the run is over.
C2_Witness ==
    /\ pc = "done"
    /\ N = 2
    /\ Matched(1) /\ ~ Matched(2)
    /\ Len(stdout) = 1
    /\ stdout[1].index = 1

\* ----------------------------------------------------------------------- C3
\* C3: once both streams are flattened they have the same length, one entry
\* per pixel of the matched pairs, and position q of each stream is the class
\* id of the same pixel location of the same image.
C3_FlatStreamsAligned ==
    FlatsBound =>
       LET locs == Locations(N)
       IN  /\ Len(flat_preds) = Len(flat_truth)
           /\ Len(flat_truth) = Len(locs)
           /\ \A q \in 1 .. Len(locs) :
                 /\ flat_preds[q] = pred_arr_lst[locs[q].img][locs[q].r][locs[q].c]
                 /\ flat_truth[q] = label_arr_lst[locs[q].img][locs[q].r][locs[q].c]

\* Two matched pairs with different contents were flattened into streams
\* that differ from each other.
C3_Witness ==
    /\ FlatsBound
    /\ Len(pred_arr_lst_valid) >= 2
    /\ pred_arr_lst_valid[1] # pred_arr_lst_valid[2]
    /\ flat_preds # flat_truth

\* ----------------------------------------------------------------------- C4
\* C4: the entries of the raw confusion matrix sum to the number of pixels of
\* all matched pairs.
C4_PixelConservation ==
    cm.dtype = "int" => SumAll(cm.data) = TotalValidPixels

\* ----------------------------------------------------------------------- C5
\* C5: the raw matrix is indexed by all of 0..K-1 in both directions, and
\* entry [t][p] is the number of positions with truth t and prediction p; a
\* class that never occurs keeps its all-zero row and column.
C5_FullLabelEnumeration ==
    cm.dtype = "int" =>
       /\ DOMAIN cm.data = 0 .. (OUTPUT_CHANNELS - 1)
       /\ \A t \in Labels :
             /\ DOMAIN cm.data[t] = 0 .. (OUTPUT_CHANNELS - 1)
             /\ \A p \in Labels :
                   cm.data[t][p] =
                      Cardinality({q \in 1 .. Len(flat_truth) :
                                      flat_truth[q] = t /\ flat_preds[q] = p})
       /\ \A c \in Labels \ UniqueLabels(flat_truth, flat_preds) :
             \A o \in Labels : cm.data[c][o] = 0 /\ cm.data[o][c] = 0

\* The matrix is built, class 0 never occurs, and a pixel of class 9 was
\* predicted correctly.
C5_Witness ==
    /\ cm.dtype = "int"
    /\ 0 \notin UniqueLabels(flat_truth, flat_preds)
    /\ cm.data[OUTPUT_CHANNELS - 1][OUTPUT_CHANNELS - 1] >= 1
    /\ Len(flat_truth) >= 2

\* ----------------------------------------------------------------------- C6
\* Counts of one class over the flat streams.
TruePositives(c) ==
    Cardinality({q \in 1 .. Len(flat_truth) : flat_truth[q] = c /\ flat_preds[q] = c})

\* 2*tp + fp + fn: the pixels predicted as c plus the pixels that are c.
F1Denominator(c) ==
    Cardinality({q \in 1 .. Len(flat_preds) : flat_preds[q] = c})
    + Cardinality({q \in 1 .. Len(flat_truth) : flat_truth[q] = c})

RECURSIVE CommonDenominator(_)
\* The product of the non-zero F1 denominators of the classes of S.
CommonDenominator(S) ==
    IF S = {} THEN 1
    ELSE LET c == CHOOSE x \in S : TRUE
         IN  (IF F1Denominator(c) = 0 THEN 1 ELSE F1Denominator(c))
             * CommonDenominator(S \ {c})

RECURSIVE F1Numerators(_, _)
\* Sum over the classes c of S of F1(c) * D, where F1(c) = 2PR/(P+R)
\* = 2*tp / (2*tp + fp + fn), and 0 when the class has no pixel at all.
F1Numerators(S, D) ==
    IF S = {} THEN 0
    ELSE LET c == CHOOSE x \in S : TRUE
         IN  (IF F1Denominator(c) = 0 THEN 0
              ELSE 2 * TruePositives(c) * (D \div F1Denominator(c)))
             + F1Numerators(S \ {c}, D)

\* The displayed score is the unweighted mean of the class F1 values over S.
IsMeanF1Over(S) ==
    LET D == CommonDenominator(S)
    IN  /\ f1[1].d # 0
        /\ f1[1].n * Cardinality(S) * D = f1[1].d * F1Numerators(S, D)

\* C6 as stated: the reported F1 is the unweighted mean of the per-class F1
\* values over all K declared classes, absent classes counting as 0.
C6_MacroOverDeclaredClasses ==
    f1 # <<>> => IsMeanF1Over(Labels)

\* C6 as amended: the reported F1 is the unweighted mean of the per-class F1
\* values over the classes that occur in the truth or the prediction stream.
C6_MacroOverOccurringClasses ==
    f1 # <<>> => IsMeanF1Over(UniqueLabels(flat_truth, flat_preds))

\* A score strictly between 0 and 1 was displayed while a declared class
\* occurs in neither stream.
C6_Witness ==
    /\ f1 # <<>>
    /\ 0 < f1[1].n /\ f1[1].n < f1[1].d
    /\ Labels \ UniqueLabels(flat_truth, flat_preds) # {}
    /\ Cardinality(UniqueLabels(flat_truth, flat_preds)) >= 2

\* ----------------------------------------------------------------------- C7
\* C7: when a pixel of a matched pair carries an id outside 0..K-1, no
\* confusion matrix is ever produced.
C7_OutOfRangeIsFatal ==
    ValidPixelOutOfRange => cm.dtype = "none"

\* ----------------------------------------------------------------------- C8
\* C8: once the raw count matrix is built, no later step changes it.
C8_RawMatrixImmutable ==
    [][cm.dtype = "int" => cm' = cm]_vars

\* ----------------------------------------------------------------------- C9
\* A row of floats is all NaN, or all zero.
RowAllNaN(row) == \A p \in Labels : row[p] = NaN
RowAllZero(row) == \A p \in Labels : row[p] = ToFloat(0)

\* C9: in the normalised matrix a row whose true class has at least one pixel
\* sums to 1, and a row whose true class has no pixel is all-zero or all-NaN.
C9_RowsSumToOne ==
    cm.dtype = "float" =>
       \A t \in Labels :
          IF \E q \in 1 .. Len(flat_truth) : flat_truth[q] = t
          THEN RowSum(cm.data[t], OUTPUT_CHANNELS - 1) = ToFloat(1)
          ELSE RowAllNaN(cm.data[t]) \/ RowAllZero(cm.data[t])

\* ---------------------------------------------------------------------- C10
\* Every pair is matched and every class id is declared.
AllMatchedInRange ==
    /\ N >= 1
    /\ \A k \in 1 .. N : Matched(k)
    /\ ~ ValidPixelOutOfRange

\* All grids agree in every dimension but the first.
SameTrailingShape ==
    \A k \in 1 .. N : Len(pred_arr_lst[k][1]) = Len(pred_arr_lst[1][1])

\* No pair was skipped, no step failed and every pixel was counted.
FullyProcessed ==
    /\ stdout = <<>>
    /\ pc # "error"
    /\ (pc \notin {"L307", "L339"} => Len(flat_preds) = TotalValidPixels)
    /\ (pc \notin {"L307", "L339", "L340"} => Len(flat_truth) = TotalValidPixels)
    /\ (pc \notin {"L307", "L339", "L340", "L342"} => cm.dtype # "none")
    /\ (cm.dtype = "int" => SumAll(cm.data) = TotalValidPixels)

====
